---- MODULE Spec2Model ----
(***************************************************************************)
(* Model of backend/app.py of ConcierGo: the two Flask handlers            *)
(* recommendations() and place_details(), the haversine helper and the     *)
(* scoring/sorting done at the end of recommendations().                   *)
(*                                                                         *)
(* Number representation.  Python floats are modelled in exact fixed point *)
(* arithmetic: coordinates and radius_km in thousandths (40.01 is 40010),  *)
(* ratings in tenths (4.5 is 45), a score in ten-thousandths.  Optional    *)
(* values (None in Python, an absent JSON key) are sequences of length at  *)
(* most one: None == <<>>, Some(v) == <<v>>.                               *)
(***************************************************************************)
EXTENDS Integers, Sequences, FiniteSets, TLC

VARIABLES
    API_KEY,        \* os.getenv("GOOGLE_MAPS_API_KEY"): None, Some("") or Some(key)
    pc,             \* "idle", "searching" (inside the for loop), "done", "score", "scored"
    request,        \* the inbound request being served (None before it arrives)
    lat, lng,       \* parsed query point (thousandths of a degree)
    radius_m,       \* parsed radius in metres
    interests,      \* the list the for loop iterates over
    k,              \* index of the interest whose search is issued next
    results_by_id,  \* the insertion-ordered dict, as the sequence of its values
    calls,          \* outbound provider calls issued so far, in order
    returned,       \* what the provider answered to each call, in order
    response,       \* the HTTP response of the handler (None until it returns)
    scoreArgs,      \* pair of place summaries handed to score()
    scoreOut        \* pair of their scores (None until computed)

vars == <<API_KEY, pc, request, lat, lng, radius_m, interests, k,
          results_by_id, calls, returned, response, scoreArgs, scoreOut>>

----------------------------------------------------------------------------
(* Bounds of the model *)

MaxInterests == 2
MaxPlaces == 2
CountSpan == 1
DistSpan == 1
BulkSearches == 3

(* Program constants *)

MaxResultCount == 20
RatingCountCap == 200
NullDistance == 1000000
TopN == 50

----------------------------------------------------------------------------
(* Optional values *)

None == <<>>
Some(v) == <<v>>
Get(o) == o[1]

\* Python's  x or dflt  on an optional number: None and 0 are both falsy.
OrElse(o, dflt) == IF o = None \/ Get(o) = 0 THEN dflt ELSE Get(o)

\* Python's  d.get(key)  chained after  (x or {}) : the field of a present
\* object, None when the object is absent.
Field(o, name) == IF o = None THEN None ELSE Get(o)[name]

Min(a, b) == IF a <= b THEN a ELSE b

RECURSIVE Reverse(_)
Reverse(s) == IF s = <<>> THEN <<>> ELSE Append(Reverse(Tail(s)), Head(s))

----------------------------------------------------------------------------
(* float(text): text is a sequence of one-character strings *)

Digits == <<"0", "1", "2", "3", "4", "5", "6", "7", "8", "9">>
IsDigit(c) == \E i \in 1..10 : Digits[i] = c
DigitOf(c) == (CHOOSE i \in 1..10 : Digits[i] = c) - 1

RECURSIVE LStrip(_)
LStrip(t) == IF t # <<>> /\ Head(t) = " " THEN LStrip(Tail(t)) ELSE t

Strip(t) == Reverse(LStrip(Reverse(LStrip(t))))

RECURSIVE DigitsVal(_)
DigitsVal(ds) ==
    IF ds = <<>> THEN 0
    ELSE DigitsVal(SubSeq(ds, 1, Len(ds) - 1)) * 10 + DigitOf(ds[Len(ds)])

RECURSIVE Pow10(_)
Pow10(n) == IF n = 0 THEN 1 ELSE 10 * Pow10(n - 1)

\* float(t) for decimal literals  [ws][sign]digits[.digits][ws]  with at most
\* three fractional digits; the value in thousandths, None for ValueError.
ParseFloat(t) ==
    LET s    == Strip(t)
        neg  == s # <<>> /\ Head(s) = "-"
        body == IF s # <<>> /\ Head(s) \in {"+", "-"} THEN Tail(s) ELSE s
        dots == {i \in 1..Len(body) : body[i] = "."}
        dot  == IF dots = {} THEN Len(body) + 1 ELSE CHOOSE i \in dots : TRUE
        ip   == SubSeq(body, 1, dot - 1)
        fp   == SubSeq(body, dot + 1, Len(body))
        ok   == /\ Cardinality(dots) <= 1
                /\ \A i \in 1..Len(body) : i \in dots \/ IsDigit(body[i])
                /\ Len(ip) + Len(fp) >= 1
                /\ Len(fp) <= 3
        mag  == DigitsVal(ip) * 1000 + DigitsVal(fp) * Pow10(3 - Len(fp))
    IN  IF ~ok THEN None ELSE Some(IF neg THEN 0 - mag ELSE mag)

----------------------------------------------------------------------------
(* haversine *)

\* Values of haversine() between the coordinates the model uses, as the
\* source function computes them (metres, truncated by int()).
HaversineTable ==
    { << <<40000, -73000>>, <<40010, -73000>>, 1111 >>,
      << <<40000, -73000>>, <<40000, -72000>>, 85179 >>,
      << <<40000, -73000>>, <<40020, -73000>>, 2223 >>,
      << <<40000, -73000>>, <<40000, -72990>>, 851 >>,
      << <<40010, -73000>>, <<40000, -72000>>, 85180 >>,
      << <<40010, -73000>>, <<40020, -73000>>, 1111 >>,
      << <<40010, -73000>>, <<40000, -72990>>, 1400 >>,
      << <<40000, -72000>>, <<40020, -73000>>, 85196 >>,
      << <<40000, -72000>>, <<40000, -72990>>, 84328 >>,
      << <<40020, -73000>>, <<40000, -72990>>, 2381 >> }

haversine(lat1, lon1, lat2, lon2) ==
    IF lat1 = lat2 /\ lon1 = lon2 THEN 0
    ELSE LET e == CHOOSE t \in HaversineTable :
                      \/ t[1] = <<lat1, lon1>> /\ t[2] = <<lat2, lon2>>
                      \/ t[2] = <<lat1, lon1>> /\ t[1] = <<lat2, lon2>>
         IN  e[3]

----------------------------------------------------------------------------
(* Interests *)

\* s.strip().lower() on the pieces of the interests parameter the model uses.
StripLower(piece) ==
    CASE piece = " Coffee" -> "coffee"
      [] piece = "ZOO "    -> "zoo"
      [] piece = "  "      -> ""
      [] OTHER             -> piece

\* INTEREST_MAP.get(interest, interest): an unmapped tag is sent as a type
\* (not what the code does).
INTEREST_MAP_PassThrough(tag) ==
    CASE tag = "coffee"      -> Some("cafe")
      [] tag = "parks"       -> Some("park")
      [] tag = "museums"     -> Some("museum")
      [] tag = "restaurants" -> Some("restaurant")
      [] OTHER               -> Some(tag)

INTEREST_MAP(tag) ==
    CASE tag = "coffee"      -> Some("cafe")
      [] tag = "parks"       -> Some("park")
      [] tag = "museums"     -> Some("museum")
      [] tag = "restaurants" -> Some("restaurant")
      [] OTHER               -> None

RECURSIVE StrippedPieces(_)
StrippedPieces(pieces) ==
    IF pieces = <<>> THEN <<>>
    ELSE LET s == StripLower(Head(pieces))
         IN  IF s # "" THEN <<s>> \o StrippedPieces(Tail(pieces))
             ELSE StrippedPieces(Tail(pieces))

\* [s.strip().lower() for s in ....split(",") if s.strip()] or ["restaurants"]
\* A missing parameter reads as "", whose split is the single piece "".
ParseInterests(arg) ==
    LET pieces == IF arg = None THEN <<"">> ELSE Get(arg)
        kept   == StrippedPieces(pieces)
    IN  IF kept = <<>> THEN <<"restaurants">> ELSE kept

----------------------------------------------------------------------------
(* Provider records and the merge *)

Coord(la, lo) == Some([latitude |-> Some(la), longitude |-> Some(lo)])

RawPlace(id, name, rating, count, loc, addr) ==
    [id |-> id, displayName |-> name, types |-> None, rating |-> rating,
     userRatingCount |-> count, location |-> loc, formattedAddress |-> addr]

Name(text) == Some([text |-> Some(text)])

\* The provider's records near the query point, in the order it ranks them.
\* "A" occurs twice with different fields; "B" and "D" carry no usable
\* location; "C" and "E" differ only in identifier and name; two records
\* carry no identifier (absent, and the empty string).
ProviderFeed ==
    << RawPlace(Some("A"), Name("Cafe A"), Some(45), Some(300),
                Coord(40000, -73000), Some("1 Main St")),
       RawPlace(Some("A"), Name("Cafe A2"), Some(10), Some(10),
                Coord(40000, -72000), None),
       RawPlace(Some("B"), Name("Bar B"), Some(45), Some(300),
                None, Some("2 Main St")),
       RawPlace(Some("C"), Name("Cafe C"), Some(45), Some(300),
                Coord(40010, -73000), Some("3 Main St")),
       RawPlace(Some("E"), Name("Cafe E"), Some(45), Some(300),
                Coord(40010, -73000), Some("3 Main St")),
       RawPlace(Some("D"), None, None, None,
                Some([latitude |-> Some(40020), longitude |-> None]), None),
       RawPlace(None, Name("Nameless"), Some(50), Some(500),
                Coord(40000, -72990), None),
       RawPlace(Some(""), Some([text |-> None]), Some(0), Some(0),
                Coord(40020, -73000), None) >>

\* A page of a successful search: up to MaxPlaces consecutive records.
ProviderPages ==
    { SubSeq(ProviderFeed, w[1], w[1] + w[2] - 1) :
        w \in { v \in (1..Len(ProviderFeed)) \X (0..MaxPlaces) :
                  v[1] + v[2] - 1 <= Len(ProviderFeed) } }

\* A full page of MaxResultCount records, the b-th block of a larger result
\* set; v varies the ratings the provider reports.
BulkPlace(n, v) ==
    RawPlace(Some(ToString(n)),
             Name("place"),
             IF n % 7 = 0 THEN None ELSE Some(10 + ((3 * n + 5 * v) % 40)),
             IF n % 11 = 0 THEN None ELSE Some((37 * n) % 400),
             CASE n % 5 = 0 -> Coord(40000, -73000)
               [] n % 5 = 1 -> Coord(40010, -73000)
               [] n % 5 = 2 -> Coord(40020, -73000)
               [] n % 5 = 3 -> Coord(40000, -72990)
               [] OTHER     -> None,
             None)

BulkPage(b, v) ==
    [i \in 1..MaxResultCount |-> BulkPlace(MaxResultCount * (b - 1) + i, v)]

BulkPages == { BulkPage(b, v) : b \in 1..BulkSearches, v \in {0, 1} }

\* not pid
Falsy(id) == IF id = None THEN TRUE ELSE Get(id) = ""

HasId(results, pid) == \E i \in 1..Len(results) : results[i].id = pid

\* The dict value built for one provider record.
MkSummary(p, qlat, qlng) ==
    LET plat == Field(p.location, "latitude")
        plng == Field(p.location, "longitude")
        dist == IF plat # None /\ plng # None
                THEN Some(haversine(qlat, qlng, Get(plat), Get(plng)))
                ELSE None
    IN  [id                 |-> Get(p.id),
         name               |-> Field(p.displayName, "text"),
         types              |-> IF p.types = None THEN <<>> ELSE Get(p.types),
         rating             |-> p.rating,
         user_ratings_total |-> p.userRatingCount,
         location           |-> [lat |-> plat, lng |-> plng],
         distance_m         |-> dist,
         vicinity           |-> p.formattedAddress]

\* Body of the inner for loop for one record.
MergePlaceOverwrite(results, p, qlat, qlng) ==
    IF Falsy(p.id) THEN results
    ELSE IF HasId(results, Get(p.id))
         THEN [i \in 1..Len(results) |->
                  IF results[i].id = Get(p.id) THEN MkSummary(p, qlat, qlng)
                  ELSE results[i]]
         ELSE Append(results, MkSummary(p, qlat, qlng))

MergePlace(results, p, qlat, qlng) ==
    IF Falsy(p.id) \/ HasId(results, Get(p.id)) THEN results
    ELSE Append(results, MkSummary(p, qlat, qlng))

RECURSIVE MergePage(_, _, _, _)
MergePage(results, page, qlat, qlng) ==
    IF page = <<>> THEN results
    ELSE MergePage(MergePlace(results, Head(page), qlat, qlng),
                   Tail(page), qlat, qlng)

----------------------------------------------------------------------------
(* Scoring and ordering *)

\* The score without the cap on the rating count (not what the code does).
scoreUncapped(x) ==
    LET r == OrElse(x.rating, 0)
        n == OrElse(x.user_ratings_total, 0)
        d == OrElse(x.distance_m, NullDistance)
    IN  5 * r * n - 2 * d

\* score(x), in ten-thousandths:
\*   r * min(n, 200) / 200 - d / 5000  =  (5 * r10 * min(n, 200) - 2 * d) / 10000
score(x) ==
    LET r == OrElse(x.rating, 0)
        n == OrElse(x.user_ratings_total, 0)
        d == OrElse(x.distance_m, NullDistance)
    IN  5 * r * Min(n, RatingCountCap) - 2 * d

\* list.sort is stable: an element goes after every element whose key is
\* not greater.
InsertAsc(sorted, x) ==
    LET p == Cardinality({i \in 1..Len(sorted) : score(sorted[i]) <= score(x)})
    IN  SubSeq(sorted, 1, p) \o <<x>> \o SubSeq(sorted, p + 1, Len(sorted))

RECURSIVE SortAsc(_)
SortAsc(items) ==
    IF items = <<>> THEN <<>>
    ELSE InsertAsc(SortAsc(SubSeq(items, 1, Len(items) - 1)), items[Len(items)])

\* items.sort(key=score, reverse=True): CPython reverses the list, sorts it
\* stably in ascending order and reverses it again.
SortByScore(items) == Reverse(SortAsc(Reverse(items)))

\* items[:50]
Truncate(items) == SubSeq(items, 1, Min(TopN, Len(items)))

----------------------------------------------------------------------------
(* Inbound requests *)

\* Values of the lat, lng and radius_km query parameters (None: absent).
LatArgs ==
    { None, Some(<<"4", "0", ".", "0">>), Some(<<"a", "b">>), Some(<<>>),
      Some(<<"4", ".", "0", ".", "0">>), Some(<<".">>) }
LngArgs ==
    { None, Some(<<" ", "-", "7", "3">>), Some(<<"x">>), Some(<<"-">>),
      Some(<<"7", "3", "-">>) }
RadiusArgs == { None, Some(<<".", "5">>), Some(<<"k", "m">>) }

\* The interests parameter split at its commas (None: absent).
Pieces == {" Coffee", "ZOO ", "  "}
InterestArgs ==
    {None} \cup
    UNION { { Some(s) : s \in [1..n -> Pieces] } : n \in 1..MaxInterests }

PlaceIds == {"A", "nope"}

RecRequest(la, lo, ia, ra) ==
    [endpoint |-> "recommendations", lat |-> la, lng |-> lo, interests |-> ia,
     radius_km |-> ra, place_id |-> ""]

DetailRequest(pid) ==
    [endpoint |-> "place", lat |-> None, lng |-> None, interests |-> None,
     radius_km |-> None, place_id |-> pid]

----------------------------------------------------------------------------
(* Responses *)

Resp(status, error, upstream, items, detail) ==
    [status |-> status, error |-> error, upstream |-> upstream,
     items |-> items, detail |-> detail]

\* jsonify({"error": "GOOGLE_MAPS_API_KEY missing"}), 500
KeyMissing == Resp(500, "GOOGLE_MAPS_API_KEY missing", None, <<>>, None)

\* jsonify({"error": "lat and lng are required numbers"}), 400
BadCoords == Resp(400, "lat and lng are required numbers", None, <<>>, None)

\* An exception no handler catches leaves the view: Flask answers 500.
Unhandled == Resp(500, "Internal Server Error", None, <<>>, None)

\* jsonify({"error": ..., "status": r.status_code, "body": r.text}), 502
UpstreamFailed(error, status, body) ==
    Resp(502, error, Some([status |-> status, body |-> body]), <<>>, None)

\* jsonify(items[:50])
Recommended(items) == Resp(200, "", None, items, None)

\* The flattened detail object of place_details.
Detailed(d) ==
    Resp(200, "", None, <<>>,
         Some([id            |-> d.id,
               name          |-> Field(d.displayName, "text"),
               address       |-> d.formattedAddress,
               phone         |-> d.internationalPhoneNumber,
               website       |-> d.websiteUri,
               location      |-> [lat |-> Field(d.location, "latitude"),
                                  lng |-> Field(d.location, "longitude")],
               opening_hours |-> Field(d.regularOpeningHours,
                                       "weekdayDescriptions")]))

----------------------------------------------------------------------------
(* The provider *)

\* Non-200 statuses and bodies the provider answers with.
ErrorStatuses == {204, 404, 500}
ErrorBodies == {"", "upstream failure"}

RawDetails ==
    { [id |-> Some("A"), displayName |-> Name("Cafe A"),
       formattedAddress |-> Some("1 Main St"),
       internationalPhoneNumber |-> Some("+1 555 0100"),
       websiteUri |-> None,
       regularOpeningHours |->
           Some([weekdayDescriptions |-> Some(<<"Mon 9-5", "Tue 9-5">>)]),
       location |-> Coord(40000, -73000)],
      [id |-> Some("A"), displayName |-> None, formattedAddress |-> None,
       internationalPhoneNumber |-> None, websiteUri |-> None,
       regularOpeningHours |-> None, location |-> None] }

Answer(kind, status, body, places) ==
    [kind |-> kind, status |-> status, body |-> body, places |-> places]

\* requests.post(url, headers=..., json=body, timeout=10)
SearchCall(interest, qlat, qlng, radius) ==
    [endpoint |-> "places:searchNearby", interest |-> interest,
     includedTypes |-> INTEREST_MAP(interest), center |-> <<qlat, qlng>>,
     radius |-> radius, maxResultCount |-> MaxResultCount]

\* requests.get(url, headers=..., params=..., timeout=10)
DetailCall(pid) ==
    [endpoint |-> "places/" \o pid, interest |-> "", includedTypes |-> None,
     center |-> <<0, 0>>, radius |-> 0, maxResultCount |-> 0]

----------------------------------------------------------------------------
(* recommendations() *)

\* lat = float(request.args["lat"]); lng = float(request.args["lng"]):
\* None when either lookup or conversion raises.
ParseCoordsLatOnly(la, lo) ==
    IF la = None \/ ParseFloat(Get(la)) = None THEN None
    ELSE Some(<<Get(ParseFloat(Get(la))),
                IF lo = None \/ ParseFloat(Get(lo)) = None THEN 0 - 73000
                ELSE Get(ParseFloat(Get(lo)))>>)

ParseCoords(la, lo) ==
    IF la = None \/ lo = None THEN None
    ELSE IF ParseFloat(Get(la)) = None \/ ParseFloat(Get(lo)) = None THEN None
    ELSE Some(<<Get(ParseFloat(Get(la))), Get(ParseFloat(Get(lo)))>>)

\* int(float(request.args.get("radius_km", "3")) * 1000): thousandths of a
\* kilometre are metres; None when float() raises.
ParseRadius(ra) == ParseFloat(IF ra = None THEN <<"3">> ELSE Get(ra))

\* The handler returns: nothing but the response and the position change.
Return(resp) ==
    /\ pc' = "done"
    /\ response' = Some(resp)

\* if not API_KEY: return ..., 500
RecNoKey ==
    /\ pc = "idle"
    /\ Falsy(API_KEY)
    /\ \E la \in LatArgs, lo \in LngArgs, ia \in InterestArgs, ra \in RadiusArgs :
           request' = Some(RecRequest(la, lo, ia, ra))
    /\ Return(KeyMissing)
    /\ UNCHANGED <<API_KEY, lat, lng, radius_m, interests, k, results_by_id,
                   calls, returned, scoreArgs, scoreOut>>

\* except Exception: return ..., 400
RecBadCoords ==
    /\ pc = "idle"
    /\ ~Falsy(API_KEY)
    /\ \E la \in LatArgs, lo \in LngArgs, ia \in InterestArgs, ra \in RadiusArgs :
           /\ ParseCoords(la, lo) = None
           /\ request' = Some(RecRequest(la, lo, ia, ra))
    /\ Return(BadCoords)
    /\ UNCHANGED <<API_KEY, lat, lng, radius_m, interests, k, results_by_id,
                   calls, returned, scoreArgs, scoreOut>>

\* float() of radius_km raises outside the try block.
RecBadRadius ==
    /\ pc = "idle"
    /\ ~Falsy(API_KEY)
    /\ \E la \in LatArgs, lo \in LngArgs, ia \in InterestArgs, ra \in RadiusArgs :
           /\ ParseCoords(la, lo) # None
           /\ ParseRadius(ra) = None
           /\ request' = Some(RecRequest(la, lo, ia, ra))
           /\ lat' = Get(ParseCoords(la, lo))[1]
           /\ lng' = Get(ParseCoords(la, lo))[2]
           /\ interests' = ParseInterests(ia)
    /\ Return(Unhandled)
    /\ UNCHANGED <<API_KEY, radius_m, k, results_by_id, calls, returned,
                   scoreArgs, scoreOut>>

\* The request passes the checks: the for loop is entered.
RecAccept ==
    /\ pc = "idle"
    /\ ~Falsy(API_KEY)
    /\ \E la \in LatArgs, lo \in LngArgs, ia \in InterestArgs, ra \in RadiusArgs :
           /\ ParseCoords(la, lo) # None
           /\ ParseRadius(ra) # None
           /\ request' = Some(RecRequest(la, lo, ia, ra))
           /\ lat' = Get(ParseCoords(la, lo))[1]
           /\ lng' = Get(ParseCoords(la, lo))[2]
           /\ interests' = ParseInterests(ia)
           /\ radius_m' = Get(ParseRadius(ra))
    /\ pc' = "searching"
    /\ k' = 1
    /\ results_by_id' = <<>>
    /\ UNCHANGED <<API_KEY, calls, returned, response, scoreArgs, scoreOut>>

\* One pass of the for loop whose search answers 200 with `page`; after the
\* last interest, the sort, the truncation and the 200 response.
SearchOkWith(page) ==
    /\ pc = "searching"
    /\ calls' = Append(calls, SearchCall(interests[k], lat, lng, radius_m))
    /\ returned' = Append(returned, Answer("ok", 200, "", page))
    /\ results_by_id' = MergePage(results_by_id, page, lat, lng)
    /\ IF k = Len(interests)
       THEN /\ Return(Recommended(Truncate(SortByScore(results_by_id'))))
            /\ k' = k
       ELSE /\ k' = k + 1
            /\ UNCHANGED <<pc, response>>
    /\ UNCHANGED <<API_KEY, request, lat, lng, radius_m, interests,
                   scoreArgs, scoreOut>>

SearchOk == pc = "searching" /\ \E page \in ProviderPages : SearchOkWith(page)

BulkSearchOk == pc = "searching" /\ \E page \in BulkPages : SearchOkWith(page)

\* A failed search is skipped and the loop goes on (not what the code does).
SearchHttpErrorSkip(status, body) ==
    /\ pc = "searching"
    /\ calls' = Append(calls, SearchCall(interests[k], lat, lng, radius_m))
    /\ returned' = Append(returned, Answer("http", status, body, <<>>))
    /\ IF k = Len(interests)
       THEN /\ Return(Recommended(Truncate(SortByScore(results_by_id))))
            /\ k' = k
       ELSE /\ k' = k + 1
            /\ UNCHANGED <<pc, response>>
    /\ UNCHANGED <<API_KEY, request, lat, lng, radius_m, interests,
                   results_by_id, scoreArgs, scoreOut>>

\* if r.status_code != 200: return ..., 502
SearchHttpError(status, body) ==
    /\ pc = "searching"
    /\ calls' = Append(calls, SearchCall(interests[k], lat, lng, radius_m))
    /\ returned' = Append(returned, Answer("http", status, body, <<>>))
    /\ Return(UpstreamFailed("Places search error", status, body))
    /\ UNCHANGED <<API_KEY, request, lat, lng, radius_m, interests, k,
                   results_by_id, scoreArgs, scoreOut>>

\* requests.post raises requests.exceptions.Timeout after 10 seconds; nothing
\* in the handler catches it.
SearchTimeout ==
    /\ pc = "searching"
    /\ calls' = Append(calls, SearchCall(interests[k], lat, lng, radius_m))
    /\ returned' = Append(returned, Answer("timeout", 0, "", <<>>))
    /\ Return(Unhandled)
    /\ UNCHANGED <<API_KEY, request, lat, lng, radius_m, interests, k,
                   results_by_id, scoreArgs, scoreOut>>

----------------------------------------------------------------------------
(* place_details() *)

DetailNoKey(pid) ==
    /\ pc = "idle"
    /\ Falsy(API_KEY)
    /\ request' = Some(DetailRequest(pid))
    /\ Return(KeyMissing)
    /\ UNCHANGED <<API_KEY, lat, lng, radius_m, interests, k, results_by_id,
                   calls, returned, scoreArgs, scoreOut>>

\* The single outbound lookup and what the handler makes of its answer.
Lookup(pid, answer, resp) ==
    /\ request' = Some(DetailRequest(pid))
    /\ calls' = Append(calls, DetailCall(pid))
    /\ returned' = Append(returned, answer)
    /\ Return(resp)
    /\ UNCHANGED <<API_KEY, lat, lng, radius_m, interests, k, results_by_id,
                   scoreArgs, scoreOut>>

DetailOk(pid, d) ==
    /\ pc = "idle"
    /\ ~Falsy(API_KEY)
    /\ Lookup(pid, Answer("ok", 200, "", <<d>>), Detailed(d))

\* if r.status_code != 200: return ..., 502
DetailHttpError(pid, status, body) ==
    /\ pc = "idle"
    /\ ~Falsy(API_KEY)
    /\ Lookup(pid, Answer("http", status, body, <<>>),
              UpstreamFailed("Places details error", status, body))

\* requests.get raises requests.exceptions.Timeout; nothing catches it.
DetailTimeout(pid) ==
    /\ pc = "idle"
    /\ ~Falsy(API_KEY)
    /\ Lookup(pid, Answer("timeout", 0, "", <<>>), Unhandled)

----------------------------------------------------------------------------
(* score() on its own *)

Ratings == {None, Some(0), Some(10), Some(45)}
Counts ==
    {None} \cup
    { Some(n) : n \in (0..CountSpan) \cup
                      ((RatingCountCap - CountSpan)..(RatingCountCap + CountSpan)) }
Distances ==
    {None} \cup { Some(d) : d \in (0..DistSpan) \cup {5000, NullDistance} }

Scored(rating, count, dist) ==
    [rating |-> rating, user_ratings_total |-> count, distance_m |-> dist]

ScoreStep ==
    /\ pc = "score"
    /\ pc' = "scored"
    /\ scoreOut' = Some(<<score(scoreArgs[1]), score(scoreArgs[2])>>)
    /\ UNCHANGED <<API_KEY, request, lat, lng, radius_m, interests, k,
                   results_by_id, calls, returned, response, scoreArgs>>

----------------------------------------------------------------------------
(* Specifications *)

NoScore == <<Scored(None, None, None), Scored(None, None, None)>>

Init ==
    /\ API_KEY \in {None, Some(""), Some("k3y")}
    /\ pc = "idle"
    /\ request = None
    /\ lat = 0
    /\ lng = 0
    /\ radius_m = 0
    /\ interests = <<>>
    /\ k = 0
    /\ results_by_id = <<>>
    /\ calls = <<>>
    /\ returned = <<>>
    /\ response = None
    /\ scoreArgs = NoScore
    /\ scoreOut = None

Next ==
    \/ RecNoKey
    \/ RecBadCoords
    \/ RecBadRadius
    \/ RecAccept
    \/ SearchOk
    \/ \E st \in ErrorStatuses, body \in ErrorBodies : SearchHttpError(st, body)
    \/ SearchTimeout
    \/ \E pid \in PlaceIds : DetailNoKey(pid)
    \/ \E pid \in PlaceIds, d \in RawDetails : DetailOk(pid, d)
    \/ \E pid \in PlaceIds, st \in ErrorStatuses, body \in ErrorBodies :
           DetailHttpError(pid, st, body)
    \/ \E pid \in PlaceIds : DetailTimeout(pid)

Spec == Init /\ [][Next]_vars

\* A recommendations request with n interests has been accepted; every
\* search that succeeds answers a full page.
BulkInterests == <<" Coffee", "ZOO ", "parks", "museums", "restaurants">>

BulkRequest(n) ==
    RecRequest(Some(<<"4", "0", ".", "0">>), Some(<<" ", "-", "7", "3">>),
               Some(SubSeq(BulkInterests, 1, n)), None)

InitBulk ==
    /\ API_KEY = Some("k3y")
    /\ pc = "searching"
    /\ request \in { Some(BulkRequest(n)) : n \in 1..BulkSearches }
    /\ lat = Get(ParseCoords(Get(request).lat, Get(request).lng))[1]
    /\ lng = Get(ParseCoords(Get(request).lat, Get(request).lng))[2]
    /\ interests = ParseInterests(Get(request).interests)
    /\ radius_m = Get(ParseRadius(Get(request).radius_km))
    /\ k = 1
    /\ results_by_id = <<>>
    /\ calls = <<>>
    /\ returned = <<>>
    /\ response = None
    /\ scoreArgs = NoScore
    /\ scoreOut = None

NextBulk ==
    \/ BulkSearchOk
    \/ \E st \in ErrorStatuses, body \in ErrorBodies : SearchHttpError(st, body)
    \/ SearchTimeout

SpecBulk == InitBulk /\ [][NextBulk]_vars

\* score() applied to two summaries that agree in rating.
InitScore ==
    /\ API_KEY = Some("k3y")
    /\ pc = "score"
    /\ request = None
    /\ lat = 0
    /\ lng = 0
    /\ radius_m = 0
    /\ interests = <<>>
    /\ k = 0
    /\ results_by_id = <<>>
    /\ calls = <<>>
    /\ returned = <<>>
    /\ response = None
    /\ scoreArgs \in { <<Scored(r, n1, d1), Scored(r, n2, d2)>> :
                         r \in Ratings, n1 \in Counts, n2 \in Counts,
                         d1 \in Distances, d2 \in Distances }
    /\ scoreOut = None

SpecScore == InitScore /\ [][ScoreStep]_vars

----------------------------------------------------------------------------
(* Vocabulary of the properties *)

IsRecommendations ==
    IF request = None THEN FALSE ELSE Get(request).endpoint = "recommendations"

Answered200 ==
    /\ IsRecommendations
    /\ pc = "done"
    /\ IF response = None THEN FALSE ELSE Get(response).status = 200

Items == Get(response).items

RECURSIVE AllPlaces(_)
AllPlaces(answers) ==
    IF answers = <<>> THEN <<>>
    ELSE AllPlaces(SubSeq(answers, 1, Len(answers) - 1))
             \o answers[Len(answers)].places

\* Every record the provider returned with an identifier, in interest-list
\* order, then provider-returned order.
Identified ==
    SelectSeq(AllPlaces(returned), LAMBDA p : p.id \notin {None, Some("")})

FirstIndex(id) ==
    CHOOSE i \in 1..Len(Identified) :
        /\ Identified[i].id = Some(id)
        /\ \A j \in 1..(i - 1) : Identified[j].id # Some(id)

FirstSeen(id) == Identified[FirstIndex(id)]

HasLocation(p) ==
    IF p.location = None THEN FALSE
    ELSE Get(p.location).latitude # None /\ Get(p.location).longitude # None

\* The score as specified: null rating 0, null rating count 0, null distance
\* 1,000,000 (in ten-thousandths).
SpecifiedScore(x) ==
    LET r == IF x.rating = None THEN 0 ELSE Get(x.rating)
        n == IF x.user_ratings_total = None THEN 0 ELSE Get(x.user_ratings_total)
        d == IF x.distance_m = None THEN 1000000 ELSE Get(x.distance_m)
    IN  5 * r * (IF n < 200 THEN n ELSE 200) - 2 * d

\* x precedes y in the specified ordering of the merged set.
Precedes(x, y) ==
    \/ SpecifiedScore(x) > SpecifiedScore(y)
    \/ /\ SpecifiedScore(x) = SpecifiedScore(y)
       /\ FirstIndex(x.id) < FirstIndex(y.id)

----------------------------------------------------------------------------
(* C1: the merged set holds exactly one entry per distinct identifier the  *)
(* provider returned, with the rating, rating count, name, location,       *)
(* distance and address of the first occurrence of that identifier in      *)
(* interest-list order then provider-returned order; a later occurrence    *)
(* never changes it; a 200 response carries these same entries.            *)
C1FirstOccurrenceWins ==
    IsRecommendations =>
        /\ \A i \in 1..Len(Identified) :
               Cardinality({j \in 1..Len(results_by_id) :
                               Some(results_by_id[j].id) = Identified[i].id}) = 1
        /\ \A j \in 1..Len(results_by_id) :
               /\ \E i \in 1..Len(Identified) :
                      Identified[i].id = Some(results_by_id[j].id)
               /\ LET e == results_by_id[j]
                      p == FirstSeen(e.id)
                  IN  /\ e.rating = p.rating
                      /\ e.user_ratings_total = p.userRatingCount
                      /\ e.name = (IF p.displayName = None THEN None
                                   ELSE Get(p.displayName).text)
                      /\ e.vicinity = p.formattedAddress
                      /\ e.location.lat = (IF p.location = None THEN None
                                           ELSE Get(p.location).latitude)
                      /\ e.location.lng = (IF p.location = None THEN None
                                           ELSE Get(p.location).longitude)
                      /\ e.distance_m =
                             (IF HasLocation(p)
                              THEN Some(haversine(lat, lng,
                                                  Get(Get(p.location).latitude),
                                                  Get(Get(p.location).longitude)))
                              ELSE None)
        /\ Answered200 =>
               /\ Len(Items) = Len(results_by_id)
               /\ \A i \in 1..Len(Items) :
                      \E j \in 1..Len(results_by_id) : Items[i] = results_by_id[j]

\* An identifier was returned under two interests with different ratings and
\* the request was answered.
C1Witness ==
    /\ Answered200
    /\ Len(returned) >= 2
    /\ \E p \in {returned[1].places[i] : i \in 1..Len(returned[1].places)},
          q \in {returned[2].places[i] : i \in 1..Len(returned[2].places)} :
           /\ p.id = q.id
           /\ p.id \notin {None, Some("")}
           /\ p.rating # q.rating

(* C2: when the k-th search answers a non-success status, no further call  *)
(* is issued, the response is 502 with the upstream status and body, and   *)
(* it carries no place.                                                    *)
C2FailFast ==
    IsRecommendations =>
        \A j \in 1..Len(returned) :
            (returned[j].kind = "http" /\ returned[j].status \notin 200..299) =>
                /\ j = Len(returned)
                /\ Len(calls) = j
                /\ pc = "done"
                /\ response # None
                /\ Get(response).status = 502
                /\ Get(response).upstream =
                       Some([status |-> returned[j].status,
                             body |-> returned[j].body])
                /\ Get(response).items = <<>>

\* The second search failed after the first had gathered a place.
C2Witness ==
    /\ IsRecommendations
    /\ Len(returned) = 2
    /\ returned[2].kind = "http"
    /\ returned[2].status = 500
    /\ results_by_id # <<>>
    /\ Get(response).status = 502

(* C3: a gateway call that times out, in either handler, is answered with  *)
(* the 502 gateway error, like a non-success response.                     *)
C3TimeoutIsGatewayError ==
    \A j \in 1..Len(returned) :
        returned[j].kind = "timeout" =>
            /\ pc = "done"
            /\ response # None
            /\ Get(response).status = 502

(* C4: the returned list is in descending order of the specified score,    *)
(* equal scores in merge order.                                            *)
C4SortedBySpecifiedScore ==
    Answered200 =>
        \A i \in 1..Len(Items) : \A j \in (i + 1)..Len(Items) :
            Precedes(Items[i], Items[j])

(* C8: distance_m is null exactly when the provider record lacks latitude  *)
(* or longitude, and such a place is returned after every place with the   *)
(* same rating and rating count, a non-null distance and a non-negative    *)
(* specified score.                                                        *)
C8NullDistanceLast ==
    Answered200 =>
        /\ \A i \in 1..Len(Items) :
               (Items[i].distance_m = None) <=> ~HasLocation(FirstSeen(Items[i].id))
        /\ \A i \in 1..Len(Items) : \A j \in 1..Len(Items) :
               ( /\ Items[i].distance_m = None
                 /\ Items[j].distance_m # None
                 /\ Items[i].rating = Items[j].rating
                 /\ Items[i].user_ratings_total = Items[j].user_ratings_total
                 /\ SpecifiedScore(Items[j]) >= 0 ) => j < i

(* C5: when all searches succeed and the provider returned N distinct    *)
(* non-empty identifiers, exactly min(N, 50) entries are returned, and     *)
(* they are the first min(N, 50) of the merged set in the specified        *)
(* ordering; missing rating, rating count or location drops no place.      *)
DistinctIds == {Identified[i].id : i \in 1..Len(Identified)}

SpecifiedTop ==
    { x \in {results_by_id[i] : i \in 1..Len(results_by_id)} :
        Cardinality({j \in 1..Len(results_by_id) :
                        Precedes(results_by_id[j], x)}) < 50 }

C5TopFifty ==
    Answered200 =>
        /\ Len(Items) = (IF Cardinality(DistinctIds) < 50
                         THEN Cardinality(DistinctIds) ELSE 50)
        /\ {Items[i] : i \in 1..Len(Items)} = SpecifiedTop

(* C6: for equal rating and rating count and integer distances             *)
(* 0 <= d1 < d2, the score at d1 is strictly greater than the score at d2. *)
C6DecreasingInDistance ==
    pc = "scored" =>
        LET x == scoreArgs[1]
            y == scoreArgs[2]
        IN  ( /\ x.rating = y.rating
              /\ x.user_ratings_total = y.user_ratings_total
              /\ x.distance_m # None
              /\ y.distance_m # None
              /\ Get(x.distance_m) < Get(y.distance_m) )
            => Get(scoreOut)[1] > Get(scoreOut)[2]

(* C7 as claimed: for any rating, 0 and null included, and a fixed         *)
(* distance, raising the rating count from n1 to n2, 0 <= n1 < n2 <= 200,  *)
(* strictly increases the score; for n1, n2 >= 200 the scores are equal.   *)
SameButCount(x, y) ==
    /\ x.rating = y.rating
    /\ x.distance_m = y.distance_m
    /\ x.user_ratings_total # None
    /\ y.user_ratings_total # None

C7IncreasingInCountAnyRating ==
    pc = "scored" =>
        LET x  == scoreArgs[1]
            y  == scoreArgs[2]
            n1 == Get(x.user_ratings_total)
            n2 == Get(y.user_ratings_total)
        IN  SameButCount(x, y) =>
                /\ (n1 < n2 /\ n2 <= 200) => Get(scoreOut)[1] < Get(scoreOut)[2]
                /\ (n1 >= 200 /\ n2 >= 200) => Get(scoreOut)[1] = Get(scoreOut)[2]

(* C7 amended: for a rating greater than 0 and a fixed distance, raising   *)
(* the rating count from n1 to n2, 0 <= n1 < n2 <= 200, strictly increases *)
(* the score; for a rating of 0 or null the score does not depend on the   *)
(* rating count; for n1, n2 >= 200 the scores are equal.                   *)
C7IncreasingInCount ==
    pc = "scored" =>
        LET x  == scoreArgs[1]
            y  == scoreArgs[2]
            n1 == Get(x.user_ratings_total)
            n2 == Get(y.user_ratings_total)
        IN  SameButCount(x, y) =>
                /\ (n1 < n2 /\ n2 <= 200 /\ x.rating \notin {None, Some(0)})
                       => Get(scoreOut)[1] < Get(scoreOut)[2]
                /\ x.rating \in {None, Some(0)}
                       => Get(scoreOut)[1] = Get(scoreOut)[2]
                /\ (n1 >= 200 /\ n2 >= 200) => Get(scoreOut)[1] = Get(scoreOut)[2]

\* A rated place scored at rating counts 0 and 200, and found to score higher
\* at 200.
C7Witness ==
    /\ pc = "scored"
    /\ scoreArgs[1].rating = Some(45)
    /\ SameButCount(scoreArgs[1], scoreArgs[2])
    /\ scoreArgs[1].user_ratings_total = Some(0)
    /\ scoreArgs[2].user_ratings_total = Some(200)
    /\ Get(scoreOut)[1] < Get(scoreOut)[2]

(* C9: with the credential configured, a recommendations request whose lat *)
(* or lng is missing or not a number is answered 400 without any outbound  *)
(* call; with the credential unconfigured every request to either endpoint *)
(* is answered 500 without any outbound call.                              *)
NumericTexts == { <<"4", "0", ".", "0">>, <<" ", "-", "7", "3">> }

IsNumber(arg) == IF arg = None THEN FALSE ELSE Get(arg) \in NumericTexts

Configured == API_KEY \notin {None, Some("")}

C9RejectedWithoutCalls ==
    request # None =>
        /\ ( /\ Configured
             /\ Get(request).endpoint = "recommendations"
             /\ ~(IsNumber(Get(request).lat) /\ IsNumber(Get(request).lng)) )
           => ( /\ pc = "done"
                /\ Get(response).status = 400
                /\ calls = <<>> )
        /\ ~Configured
           => ( /\ pc = "done"
                /\ Get(response).status = 500
                /\ calls = <<>> )

\* A request with a numeric lat and a lng that is not a number was refused.
C9Witness ==
    /\ Configured
    /\ IsRecommendations
    /\ IsNumber(Get(request).lat)
    /\ Get(request).lng = Some(<<"7", "3", "-">>)
    /\ Get(response).status = 400
    /\ calls = <<>>

(* C10: searches are issued one at a time in interest-list order; the k-th *)
(* is for the k-th interest and carries its category code, or no category  *)
(* filter for an unrecognized tag; an empty interest list is replaced by   *)
(* "restaurants"; the calls never outnumber the interests.                 *)
TagOf(piece) ==
    IF piece = " Coffee" THEN "coffee" ELSE IF piece = "ZOO " THEN "zoo" ELSE piece

ExpectedTags ==
    LET arg  == Get(request).interests
        kept == IF arg = None THEN <<>>
                ELSE SelectSeq(Get(arg), LAMBDA s : s # "  ")
    IN  IF kept = <<>> THEN <<"restaurants">>
        ELSE [i \in 1..Len(kept) |-> TagOf(kept[i])]

ExpectedTypes(tag) ==
    IF tag = "coffee" THEN Some("cafe")
    ELSE IF tag = "parks" THEN Some("park")
    ELSE IF tag = "museums" THEN Some("museum")
    ELSE IF tag = "restaurants" THEN Some("restaurant")
    ELSE None

C10OneCallPerInterest ==
    IsRecommendations =>
        /\ Len(calls) <= Len(ExpectedTags)
        /\ Len(returned) = Len(calls)
        /\ \A j \in 1..Len(calls) :
               /\ calls[j].endpoint = "places:searchNearby"
               /\ calls[j].interest = ExpectedTags[j]
               /\ calls[j].includedTypes = ExpectedTypes(ExpectedTags[j])
        /\ (pc = "searching") => k = Len(calls) + 1
        /\ Answered200 => Len(calls) = Len(ExpectedTags)

\* A mapped and an unrecognized interest were searched, in that order, and
\* the request was answered.
C10Witness ==
    /\ Answered200
    /\ Len(calls) = 2
    /\ calls[1].includedTypes = Some("cafe")
    /\ calls[2].interest = "zoo"
    /\ calls[2].includedTypes = None

====
